---- MODULE Spec2Model ----
(***************************************************************************)
(* Frame loop of rectangle_tracker.py (run_main): corner labelling,        *)
(* correspondence against the expected corners, obstruction flags, the     *)
(* movement gate and the reconstruction branches.                          *)
(*                                                                         *)
(* Points are pairs <<x, y>> of integers.  A corner set is a sequence of   *)
(* four points in the order tl, bl, br, tr (Python index i is TLA+ index   *)
(* i + 1).  Lengths and norms are carried as their squares, so that every  *)
(* comparison the code makes on them is decided exactly in integers.       *)
(***************************************************************************)
EXTENDS Integers, Sequences, FiniteSets, TLC

VARIABLES pc, error, frame_count, corner_history, last_unob_corners,
          old_homog, old_inv_homog,
          hull, labelled, expected_corners, ordered, is_obstr, has_moved,
          branch, corners, stdout

vars == <<pc, error, frame_count, corner_history, last_unob_corners,
          old_homog, old_inv_homog,
          hull, labelled, expected_corners, ordered, is_obstr, has_moved,
          branch, corners, stdout>>

\* Python's None, for variables that otherwise hold sequences
None == << >>
NoError == "none"
ValueError == << >>

\* ---------------------------------------------------------------- bounds
MaxFrames == 3

\* ------------------------------------------------------- user parameters
tol_corner_movement == 1
obst_tol == 10

\* ------------------------------------------------------------- geometry
Sub(p, q) == <<p[1] - q[1], p[2] - q[2]>>
Add(p, q) == <<p[1] + q[1], p[2] + q[2]>>
Abs(n) == IF n < 0 THEN -n ELSE n
Max(a, b) == IF a >= b THEN a ELSE b

\* numpy.linalg.norm of a vector, squared
norm2(v) == v[1] * v[1] + v[2] * v[2]

\* numpy.linalg.norm of a 4x2 matrix (Frobenius), squared
matnorm2(m) == norm2(m[1]) + norm2(m[2]) + norm2(m[3]) + norm2(m[4])

MatSub(a, b) == [i \in 1..4 |-> Sub(a[i], b[i])]

\* sqrt(a2) > t, for a squared length a2 and a tolerance t >= 0
ExceedsTol(a2, t) == a2 > t * t

\* abs(sqrt(a2) - sqrt(b2)) > t, for squared lengths a2, b2 and t >= 0:
\*   a + b - 2 sqrt(ab) > t^2  <=>  a + b - t^2 > 2 sqrt(ab)
AbsDiffExceedsTol(a2, b2, t) ==
    LET s == a2 + b2 - t * t
    IN  s > 0 /\ s * s > 4 * a2 * b2

Count(flags) == Cardinality({i \in 1..Len(flags) : flags[i]})

\* get_edge_lengths: top, right, bottom, left (squared)
get_edge_lengths(topl, botl, botr, topr) ==
    <<norm2(Sub(topr, topl)), norm2(Sub(topr, botr)),
      norm2(Sub(botr, botl)), norm2(Sub(botl, topl))>>

EdgeLengthsOf(c) == get_edge_lengths(c[1], c[2], c[3], c[4])

\* ------------------------------------------------------ corner labelling
\* np.argmin(c[0] + c[1] for c in corners): the argument is a generator,
\* which numpy wraps as a 0-d object array; the argmin of that is 0.
NpArgminOfGenerator(cs) == 0

tr_index(cs) == NpArgminOfGenerator(cs)

\* indices read by lines 166-169, in the order they are read
LabelIndices(cs) ==
    <<tr_index(cs), (tr_index(cs) - 1) % 4,
      (tr_index(cs) - 2) % 4, (tr_index(cs) - 3) % 4>>

\* corners = float32([tl, bl, br, tr])
Label(cs) == [j \in 1..4 |-> cs[LabelIndices(cs)[j] + 1]]

IndexErrorOnLabel(cs) == \E j \in 1..4 : LabelIndices(cs)[j] >= Len(cs)

\* ---------------------------------------------------- correspondence
cyclist(lst, k) ==
    IF k # 0
    THEN [i \in 1..Len(lst) |-> lst[((i - 1 + k) % Len(lst)) + 1]]
    ELSE lst

\* _order_dist(offset): <<norm(expected - offset_corners), offset_corners>>
order_dist(offset, cs, expected) ==
    LET idx == cyclist(<<0, 1, 2, 3>>, offset)
        offset_corners == [i \in 1..4 |-> cs[idx[i] + 1]]
    IN  <<matnorm2(MatSub(expected, offset_corners)), offset_corners>>

\* min(_order_dist(k) for k in range(4)): the items are tuples
\* (float, ndarray).  Comparing two tuples whose floats are equal compares
\* the arrays, and the truth value of that comparison raises ValueError.
RECURSIVE MinOrderDist(_, _, _, _)
MinOrderDist(k, best, cs, expected) ==
    IF k = 4 THEN best
    ELSE LET item == order_dist(k, cs, expected)
         IN  IF item[1] = best[1] THEN ValueError
             ELSE MinOrderDist(k + 1,
                               IF item[1] < best[1] THEN item ELSE best,
                               cs, expected)

CheckOrdering(cs, expected) ==
    MinOrderDist(1, order_dist(0, cs, expected), cs, expected)

\* ------------------------------------------------ obstruction flags
\* lines 214-223
EdgeIsBad(cs, expected_lengths) ==
    LET new_lengths == EdgeLengthsOf(cs)
    IN  [e \in 1..4 |->
            AbsDiffExceedsTol(expected_lengths[e], new_lengths[e], obst_tol)]

ObstrFlags_EitherEdge(top_is_bad, rgt_is_bad, bot_is_bad, lft_is_bad) ==
    <<top_is_bad \/ lft_is_bad,
      bot_is_bad /\ lft_is_bad,
      bot_is_bad /\ rgt_is_bad,
      top_is_bad /\ rgt_is_bad>>

ObstrFlags_SwappedPair(top_is_bad, rgt_is_bad, bot_is_bad, lft_is_bad) ==
    <<top_is_bad /\ lft_is_bad,
      bot_is_bad /\ rgt_is_bad,
      bot_is_bad /\ lft_is_bad,
      top_is_bad /\ rgt_is_bad>>

ObstrFlags(top_is_bad, rgt_is_bad, bot_is_bad, lft_is_bad) ==
    <<top_is_bad /\ lft_is_bad,
      bot_is_bad /\ lft_is_bad,
      bot_is_bad /\ rgt_is_bad,
      top_is_bad /\ rgt_is_bad>>

IsObstr(cs, expected_lengths) ==
    LET bad == EdgeIsBad(cs, expected_lengths)
    IN  ObstrFlags(bad[1], bad[2], bad[3], bad[4])

\* lines 229-230
Diffs(cs, expected) == [i \in 1..4 |-> norm2(Sub(cs[i], expected[i]))]

HasMoved(cs, expected) ==
    [i \in 1..4 |-> ExceedsTol(Diffs(cs, expected)[i], tol_corner_movement)]

\* np.argmax(diffs), as a Python index: first index of the maximum
NpArgmax(d) ==
    (CHOOSE i \in 1..Len(d) :
        /\ \A j \in 1..Len(d) : d[j] <= d[i]
        /\ \A j \in 1..(i - 1) : d[j] < d[i]) - 1

\* ------------------------------------------------------- homography
\* lines 307-312: w is taken from the labelled corners of the frame, the
\* homography from the finalized corners; the solver is a black box, so a
\* homography is carried as the correspondence it was solved from.
PaperWidth(lab) ==
    Max(Abs(lab[3][1] - lab[2][1]), Abs(lab[4][1] - lab[1][1]))

Homog(final, lab) == [src |-> final, w |-> PaperWidth(lab), inv |-> FALSE]
InvHomog(final, lab) == [src |-> final, w |-> PaperWidth(lab), inv |-> TRUE]

\* ------------------------------------------------------------ inputs
\* What the detection pipeline (lines 128-160) hands to the tracker: either
\* no contour at all, or the refined hull points in clockwise order with an
\* arbitrary starting offset.  Hulls are built from a tilted square and a
\* displacement of each of its corners (given in the order tl, bl, br, tr).
Nominal == << <<10, 0>>, <<0, 40>>, <<40, 50>>, <<50, 10>> >>

Patterns ==
    { << <<0, 0>>, <<0, 0>>, <<0, 0>>, <<0, 0>> >>,
      << <<1, 0>>, <<0, 0>>, <<0, 0>>, <<0, 0>> >>,
      << <<3, 0>>, <<1, 0>>, <<0, 0>>, <<0, 0>> >>,
      << <<2, 0>>, <<2, 0>>, <<2, 0>>, <<2, 0>> >>,
      << <<-8, 0>>, <<2, 0>>, <<2, 0>>, <<8, 0>> >>,
      << <<-8, 0>>, <<-8, 0>>, <<8, 0>>, <<8, 0>> >>,
      << <<-15, -15>>, <<2, 0>>, <<2, 0>>, <<2, 0>> >>,
      << <<-15, -15>>, <<-15, 15>>, <<2, 0>>, <<2, 0>> >>,
      << <<-15, -15>>, <<-15, 15>>, <<15, 15>>, <<15, -15>> >>,
      << <<0, 0>>, <<0, 16>>, <<16, 16>>, <<16, 0>> >>,
      << <<-5, 20>>, <<20, 5>>, <<5, -20>>, <<-20, -5>> >>,
      << <<0, 0>>, <<0, 0>>, <<0, 0>>, <<-22, 88>> >> }

Displaced(pat) == [i \in 1..4 |-> Add(Nominal[i], pat[i])]

\* the clockwise cycle tl, tr, br, bl of a corner set, started at offset k
HullOf(cs, k) == cyclist(<<cs[1], cs[4], cs[3], cs[2]>>, k)

\* every starting offset for the undisplaced square, two for the others
Offsets(pat) == IF \A i \in 1..4 : pat[i] = <<0, 0>> THEN 0..3 ELSE 0..1

QuadHulls ==
    UNION {{HullOf(Displaced(pat), k) : k \in Offsets(pat)} : pat \in Patterns}

\* hulls that approxPolyDP left with three or with five points
OddHulls ==
    { << <<10, 0>>, <<50, 10>>, <<40, 50>> >>,
      << <<10, 0>>, <<50, 10>>, <<45, 30>>, <<40, 50>>, <<0, 40>> >> }

Detections ==
    {[found |-> FALSE, hull |-> << >>]}
        \cup {[found |-> TRUE, hull |-> h] : h \in QuadHulls \cup OddHulls}

\* The obstructed corners are re-estimated through the previous homography
\* by cv2 (getAffineTransform / getRotationMatrix2D / perspectiveTransform);
\* the estimate is an input: the expected corner moved by one of these.
ReconShifts == { <<2, 0>>, <<0, 3>> }

\* ------------------------------------------------------------- state
Init ==
    /\ pc = "run"
    /\ error = NoError
    /\ frame_count = 0
    /\ corner_history = << >>
    /\ last_unob_corners = None
    /\ old_homog = None
    /\ old_inv_homog = None
    /\ hull = None
    /\ labelled = None
    /\ expected_corners = None
    /\ ordered = None
    /\ is_obstr = None
    /\ has_moved = None
    /\ branch = "init"
    /\ corners = None
    /\ stdout = << >>

\* an exception leaves the loop (and run_main) before lines 337-340
Raise(det, err, lab) ==
    /\ pc' = "crashed"
    /\ error' = err
    /\ hull' = det.hull
    /\ labelled' = lab
    /\ expected_corners' = IF lab = None THEN None ELSE last_unob_corners
    /\ ordered' = None
    /\ is_obstr' = None
    /\ has_moved' = None
    /\ branch' = "raised"
    /\ corners' = None
    /\ stdout' = << >>
    /\ UNCHANGED <<corner_history, last_unob_corners, old_homog,
                   old_inv_homog>>

\* lines 306-340: homography of the finalized corners and the updates for
\* the next iteration
Finish(det, lab, exp, ord, obs, mov, br, final0, out) ==
    \E final \in {final0} :
    /\ pc' = "run"
    /\ error' = NoError
    /\ hull' = det.hull
    /\ labelled' = lab
    /\ expected_corners' = exp
    /\ ordered' = ord
    /\ is_obstr' = obs
    /\ has_moved' = mov
    /\ branch' = br
    /\ corners' = final
    /\ stdout' = out
    /\ corner_history' = Append(corner_history, final)
    /\ old_homog' = Homog(final, lab)
    /\ old_inv_homog' = InvHomog(final, lab)

\* line 233: if sum(has_moved) < 4
GateHolds_AnyStationary(mov) == Count(mov) < 1
GateHolds(mov) == Count(mov) < 4

\* line 238: if sum(has_moved) == 1
OneCornerMoved(mov) == Count(mov) = 1

\* line 301: corners = expected_corners
FallbackCorners_KeepDetected(expected, ord) == ord
FallbackCorners(expected, ord) == expected

\* lines 191-303: a frame with a non-empty corner_history.  Each local of
\* the code is bound once, in the order the code assigns it.
Track(det, lab) ==
    \E expected \in {last_unob_corners} :
    \E expected_lengths \in
         {IF last_unob_corners = None
          THEN EdgeLengthsOf(expected)
          ELSE EdgeLengthsOf(last_unob_corners)} :
    \E best \in {CheckOrdering(lab, expected)} :
      IF best = ValueError
      THEN Raise(det, "ValueError", lab)
      ELSE
        \E ord \in {best[2]} :
        \E obs \in {IsObstr(ord, expected_lengths)} :
        \E ob_corner_ct \in {Count(obs)} :
        \E diffs \in {Diffs(ord, expected)} :
        \E mov \in {HasMoved(ord, expected)} :
        LET ob_indices == {i \in 1..4 : obs[i]}
            report == << <<"ob_corner_ct", ob_corner_ct>> >>
        IN  /\ UNCHANGED last_unob_corners
            /\ IF GateHolds(mov)
               THEN Finish(det, lab, expected, ord, obs, mov, "gate",
                           last_unob_corners, << >>)
               ELSE IF OneCornerMoved(mov)
               THEN LET bad_corner_idx == NpArgmax(diffs)
                    IN  Finish(det, lab, expected, ord, obs, mov,
                               "one_moved",
                               [ord EXCEPT ![bad_corner_idx + 1] =
                                              expected[bad_corner_idx + 1]],
                               << >>)
               ELSE IF ob_corner_ct = 0
               THEN Finish(det, lab, expected, ord, obs, mov, "ob0",
                           ord, report)
               ELSE IF ob_corner_ct = 1
               THEN \E s \in ReconShifts :
                      Finish(det, lab, expected, ord, obs, mov, "ob1",
                             [i \in 1..4 |->
                                 IF i \in ob_indices
                                 THEN Add(expected[i], s) ELSE ord[i]],
                             report)
               ELSE IF ob_corner_ct = 2
               THEN \E s1, s2 \in ReconShifts :
                      Finish(det, lab, expected, ord, obs, mov, "ob2",
                             [i \in 1..4 |->
                                 IF i \in ob_indices
                                 THEN Add(expected[i],
                                          IF \A j \in ob_indices : i <= j
                                          THEN s1 ELSE s2)
                                 ELSE ord[i]],
                             report)
               ELSE IF ob_corner_ct \in {3, 4}
               THEN Finish(det, lab, expected, ord, obs, mov, "ob34",
                           FallbackCorners(expected, ord),
                           Append(report, <<"Uh oh", ob_corner_ct>>))
               ELSE Raise(det, "Exception", lab)

\* one pass of the while loop that got a frame from the video feed
Iteration ==
    /\ pc = "run"
    /\ frame_count < MaxFrames
    /\ frame_count' = frame_count + 1
    /\ \E det \in Detections :
         IF ~det.found
         THEN Raise(det, "ValueError", None)
         ELSE IF IndexErrorOnLabel(det.hull)
         THEN Raise(det, "IndexError", None)
         ELSE \E lab \in {Label(det.hull)} :
                  IF corner_history = << >>
                  THEN /\ last_unob_corners' = lab
                       /\ Finish(det, lab, None, None, None, None,
                                 "first", lab, << >>)
                  ELSE Track(det, lab)

\* video_feed.read() returned no frame: cvtColor raises, the loop breaks
VideoEnded ==
    /\ pc = "run"
    /\ frame_count' = frame_count + 1
    /\ pc' = "ended"
    /\ UNCHANGED <<error, corner_history, last_unob_corners, old_homog,
                   old_inv_homog, hull, labelled, expected_corners, ordered,
                   is_obstr, has_moved, branch, corners, stdout>>

\* lines 344-345: 'q' is pressed at the waitKey that closes an iteration
QuitKey ==
    /\ pc = "run"
    /\ frame_count > 0
    /\ pc' = "ended"
    /\ UNCHANGED <<error, frame_count, corner_history, last_unob_corners,
                   old_homog, old_inv_homog, hull, labelled,
                   expected_corners, ordered, is_obstr, has_moved, branch,
                   corners, stdout>>

Next == Iteration \/ VideoEnded \/ QuitKey

Spec == Init /\ [][Next]_vars

\* =====================================================================
\* Properties
\* =====================================================================

\* the last iteration ran to line 340
Processed == branch \notin {"init", "raised"}

\* ... and it was not the first frame
Tracked == Processed /\ branch # "first"

\* the last iteration got as far as the ordering check of lines 199-209
Resolved == branch # "init" /\ labelled # None /\ expected_corners # None

SqDist(p, q) == (p[1] - q[1]) * (p[1] - q[1]) + (p[2] - q[2]) * (p[2] - q[2])

\* corners of the reordered candidate farther than the movement tolerance
\* from their expected position
MovedSet ==
    {i \in 1..4 : SqDist(ordered[i], expected_corners[i])
                      > tol_corner_movement * tol_corner_movement}

FlaggedSet == {i \in 1..4 : is_obstr[i]}

DegradedSignal == \E n \in 1..Len(stdout) : stdout[n][1] = "Uh oh"

\* | |p - q| - |ep - eq| | > obst_tol, decided on the squared lengths:
\*   hi > (sqrt(lo) + t)^2  <=>  hi - lo - t^2 > 2 t sqrt(lo)
LengthChanged(p, q, ep, eq) ==
    LET n == SqDist(p, q)
        e == SqDist(ep, eq)
        hi == IF n >= e THEN n ELSE e
        lo == IF n >= e THEN e ELSE n
        d == hi - lo - obst_tol * obst_tol
    IN  d > 0 /\ d * d > 4 * obst_tol * obst_tol * lo

\* the four edges of the reordered candidate against the expected ones;
\* corner order is 1 = top-left, 2 = bottom-left, 3 = bottom-right,
\* 4 = top-right
TopBad == LengthChanged(ordered[1], ordered[4],
                        expected_corners[1], expected_corners[4])
RightBad == LengthChanged(ordered[4], ordered[3],
                          expected_corners[4], expected_corners[3])
BottomBad == LengthChanged(ordered[3], ordered[2],
                           expected_corners[3], expected_corners[2])
LeftBad == LengthChanged(ordered[2], ordered[1],
                         expected_corners[2], expected_corners[1])

Adjacent(i, j) == (j - i) % 4 \in {1, 3}

\* --------------------------------------------------------------- C1
\* C1: last_unob_corners is set at the end of every frame that runs to
\* completion, so a frame after the first finds as its expected corners
\* the finalized corners of the frame before it, and last_unob_corners is
\* never None once a frame has been processed.
C1_ExpectedIsPreviousFrame ==
    /\ Processed => /\ last_unob_corners # None
                    /\ last_unob_corners = corners
    /\ Tracked => expected_corners = corner_history[Len(corner_history) - 1]

C3_OneCornerCheapPath ==
    (Tracked /\ Cardinality(MovedSet) = 1)
        => \E i \in MovedSet :
              corners = [ordered EXCEPT ![i] = expected_corners[i]]

\* --------------------------------------------------------------- C4
\* floor(sqrt(n)), by bisection on lo^2 <= n < hi^2
RECURSIVE SqrtBetween(_, _, _)
SqrtBetween(n, lo, hi) ==
    IF hi - lo <= 1 THEN lo
    ELSE LET mid == (lo + hi) \div 2
         IN  IF mid * mid <= n THEN SqrtBetween(n, mid, hi)
                               ELSE SqrtBetween(n, lo, mid)

\* floor(100 * |p - q|): the Euclidean distance in hundredths of a pixel
Dist100(p, q) == SqrtBetween(10000 * SqDist(p, q), 0, 40000)

Rotation(cs, k) == [i \in 1..4 |-> cs[((i - 1 + k) % 4) + 1]]

\* 100 * (sum of the four corner distances of rotation k) lies in
\* [SumDist100(k), SumDist100(k) + 4)
SumDist100(k) ==
    LET r == Rotation(labelled, k)
    IN  Dist100(r[1], expected_corners[1]) + Dist100(r[2], expected_corners[2])
        + Dist100(r[3], expected_corners[3])
        + Dist100(r[4], expected_corners[4])

\* the sum of distances of rotation j is smaller than that of rotation k
SumIsLess(j, k) == SumDist100(j) + 4 <= SumDist100(k)

\* rotations j and k have the same four distances, up to their order
SumIsEqual(j, k) ==
    LET dj == [i \in 1..4 |->
                  SqDist(Rotation(labelled, j)[i], expected_corners[i])]
        dk == [i \in 1..4 |->
                  SqDist(Rotation(labelled, k)[i], expected_corners[i])]
    IN  \A v \in {dj[i] : i \in 1..4} \cup {dk[i] : i \in 1..4} :
           Cardinality({i \in 1..4 : dj[i] = v})
               = Cardinality({i \in 1..4 : dk[i] = v})

\* C4: the ordering check always returns a rotation of the candidate; no
\* other rotation has a smaller sum of corner distances to the expected
\* corners, and none with a lower index has an equal sum.
C4_MinimalSumLowestIndex ==
    Resolved =>
      /\ ordered # None
      /\ \E k \in 0..3 :
           /\ ordered = Rotation(labelled, k)
           /\ \A j \in 0..3 : ~SumIsLess(j, k)
           /\ \A j \in 0..(k - 1) : ~SumIsEqual(j, k)

\* --------------------------------------------------------------- C5
\* C5: an iteration whose detection gives no contour, or a hull that does
\* not have 4 points, is skipped: the loop goes on to the next frame and
\* last_unob_corners, the homography pair and corner_history are as
\* before.
C5_DetectionFailureSkips ==
    [][(pc = "run" /\ frame_count' = frame_count + 1 /\ pc' # "ended"
            /\ Len(hull') # 4)
        => (pc' = "run"
            /\ UNCHANGED <<last_unob_corners, old_homog, old_inv_homog,
                           corner_history>>)]_vars

\* --------------------------------------------------------------- C6
\* C6: an edge is bad iff its length differs from the expected length by
\* more than obst_tol, and a corner is flagged iff both edges that meet at
\* it are bad: top-left top and left, bottom-left bottom and left,
\* bottom-right bottom and right, top-right top and right.
C6_ObstructionFlags ==
    Tracked => is_obstr = <<TopBad /\ LeftBad, BottomBad /\ LeftBad,
                            BottomBad /\ RightBad, TopBad /\ RightBad>>

\* a frame with exactly three bad edges, hence two flagged corners
C6_Witness ==
    /\ Tracked
    /\ Cardinality({b \in {"t", "r", "b", "l"} :
                       \/ b = "t" /\ TopBad
                       \/ b = "r" /\ RightBad
                       \/ b = "b" /\ BottomBad
                       \/ b = "l" /\ LeftBad}) = 3
    /\ Cardinality(FlaggedSet) = 2

\* --------------------------------------------------------------- C7
\* C7 as stated: whenever 3 or 4 corners are flagged, the finalized
\* corners are the expected corners and the frame carries the degraded
\* signal.
C7_FallbackAlwaysSignals ==
    (Tracked /\ Cardinality(FlaggedSet) \in {3, 4})
        => /\ corners = expected_corners
           /\ DegradedSignal

\* C7 amended: whenever 3 or 4 corners are flagged, the finalized corners
\* are the expected corners; the degraded message is printed exactly when
\* in addition all 4 corners are beyond the movement tolerance, and it is
\* never printed for a frame with fewer than 3 flagged corners.
C7_FallbackSignalsPastGate ==
    /\ (Tracked /\ Cardinality(FlaggedSet) \in {3, 4})
          => /\ corners = expected_corners
             /\ DegradedSignal <=> (Cardinality(MovedSet) = 4)
    /\ (Tracked /\ DegradedSignal) => Cardinality(FlaggedSet) \in {3, 4}

\* all four corners flagged and moved, and the detected corners are not
\* the expected ones
C7_Witness ==
    /\ Tracked
    /\ Cardinality(FlaggedSet) = 4
    /\ Cardinality(MovedSet) = 4
    /\ DegradedSignal
    /\ corners # ordered

\* --------------------------------------------------------------- C8
\* C8: on a frame after the first with no flagged corner and no corner
\* beyond the movement tolerance, the finalized corners are the reordered
\* candidate corners of the frame.
C8_QuietFrameKeepsCandidate ==
    (Tracked /\ FlaggedSet = {} /\ MovedSet = {}) => corners = ordered

\* --------------------------------------------------------------- C9
\* C9: the corner labelled top-left is a hull point of minimal x + y, the
\* other labels are the hull points 1, 2 and 3 positions before it, and on
\* the first frame the labelled set is the baseline as it is.
C9_FirstFrameLabelling ==
    branch = "first"
        => /\ \A j \in 1..4 :
                labelled[1][1] + labelled[1][2] <= hull[j][1] + hull[j][2]
           /\ \E i \in 0..3 :
                labelled = <<hull[i + 1], hull[((i - 1) % 4) + 1],
                             hull[((i - 2) % 4) + 1],
                             hull[((i - 3) % 4) + 1]>>
           /\ last_unob_corners = labelled
           /\ corners = labelled

\* --------------------------------------------------------------- C10
\* C10: the number of flagged corners is 0, 1, 2 or 4 and never 3; two
\* flagged corners are neighbours on the cycle, and so are the two that
\* are not flagged; the final raise and the 3-corner case of the fallback
\* are never reached.
C10_FlagCounts ==
    /\ error # "Exception"
    /\ Tracked =>
         /\ Cardinality(FlaggedSet) \in {0, 1, 2, 4}
         /\ Cardinality(FlaggedSet) = 2 =>
               /\ \A i, j \in FlaggedSet : i # j => Adjacent(i, j)
               /\ \A i, j \in (1..4) \ FlaggedSet : i # j => Adjacent(i, j)
         /\ branch = "ob34" => Cardinality(FlaggedSet) = 4

\* two flagged corners on a frame that went through reconstruction
C10_Witness ==
    /\ Tracked
    /\ Cardinality(FlaggedSet) = 2
    /\ branch = "ob2"

====
